---- MODULE Spec2Model ----
(***************************************************************************)
(* Miller-Rabin primality test with Montgomery multiplication              *)
(* (src/isPrime.js).  The arithmetic helpers are operators computed the    *)
(* way the code computes them; primalityTest is modelled twice from the    *)
(* same building blocks: as a state machine that walks through the body of *)
(* the promise executor position by position, and as the operator          *)
(* primalityTest(n, options) that gives the settled outcome of a call      *)
(* whose base sequence is fixed.                                           *)
(*                                                                         *)
(* BigInt values are TLA+ integers.  null / undefined is the empty         *)
(* sequence Null and a present value v is <<v>>.                           *)
(***************************************************************************)
EXTENDS Integers, Sequences, FiniteSets, TLC

\* ------------------------------------------------------------------------
\* Bounds of the model
\* ------------------------------------------------------------------------
\* |n| ranges over 0..MaxN for calls with caller-chosen or random bases
MaxN == 25
\* direct calls of montgomeryMul use the odd moduli in 3..MaxModulus
MaxModulus == 33
\* direct calls of ugcd use operands in 0..MaxOperand
MaxOperand == 24
\* a direct call of ugcd is followed for at most MaxSteps steps
MaxSteps == 64
\* caller-supplied base sequences have at most MaxBases entries
MaxBases == 2
\* the numRounds option ranges over undefined and 0..MaxRounds
MaxRounds == 2
\* deterministic-mode calls also cover |n| within DetWindow of the first
\* table threshold
DetWindow == 6

\* ------------------------------------------------------------------------
\* BigInt constants and primitive operations
\* ------------------------------------------------------------------------
ZERO == 0
ONE == 1
TWO == 2
FOUR == 4
NEG_ONE == -1

Null == << >>
Some(v) == << v >>

RECURSIVE Pow2(_)
Pow2(k) == IF k <= 0 THEN 1 ELSE 2 * Pow2(k - 1)

\* a << k and a >> k on BigInt (>> rounds towards minus infinity)
Shl(a, k) == a * Pow2(k)
Shr(a, k) == a \div Pow2(k)

\* a & ONE (two's complement, any sign)
AndOne(a) == a % 2
\* a & (ONE << m)
AndBit(a, m) == IF (a \div Pow2(m)) % 2 = 1 THEN Pow2(m) ELSE 0
\* a & mask, for a mask of the form 2^k - 1
AndMask(a, mask) == a % (mask + 1)

\* BigInt / and % truncate towards zero
Quot(a, b) == IF a >= 0 THEN a \div b ELSE -((-a) \div b)
Rem(a, b) == IF a >= 0 THEN a % b ELSE -((-a) % b)

RECURSIVE BinaryDigits(_)
BinaryDigits(n) == IF n < 2 THEN 1 ELSE 1 + BinaryDigits(n \div 2)

\* n.toString(2).length: "0" has length 1, a negative value carries its sign
bitLength(n) == IF n < 0 THEN 1 + BinaryDigits(-n) ELSE BinaryDigits(n)

RECURSIVE InvertLoop(_, _, _, _)
InvertLoop(inv, i, exp, base) ==
    IF i < exp
    THEN LET inv1 == IF AndOne(inv) # 0 THEN inv + base ELSE inv
         IN  InvertLoop(Shr(inv1, 1), i + 1, exp, base)
    ELSE inv

invertPowerOfTwo(exp, base) == InvertLoop(ONE, 0, exp, base)

RECURSIVE TwoMultiplicityLoop(_, _)
TwoMultiplicityLoop(n, m) ==
    IF AndBit(n, m) # 0 THEN m ELSE TwoMultiplicityLoop(n, m + 1)

twoMultiplicity(n) == IF n = ZERO THEN ZERO ELSE TwoMultiplicityLoop(n, ZERO)

\* ------------------------------------------------------------------------
\* Montgomery reduction context and arithmetic
\* ------------------------------------------------------------------------
\* getReductionContext throws for an even base
ReductionContextThrows(base) == AndOne(base) = 0

getReductionContext(base) ==
    LET numBits == bitLength(base)
        shift == numBits
        r == Shl(ONE, shift)
        rInv == invertPowerOfTwo(numBits, base)
        baseInv == r - Rem(Quot(rInv * r - ONE, base), r)
    IN  [base |-> base, shift |-> shift, r |-> r, rInv |-> rInv, baseInv |-> baseInv]

montgomeryReduce(n, ctx) == Rem(Shl(n, ctx.shift), ctx.base)

invMontgomeryReduce(n, ctx) == Rem(n * ctx.rInv, ctx.base)

\* The product before it is folded back into [0, base)
montgomeryUnfolded(a, b, ctx) ==
    LET rm1 == ctx.r - ONE
        unredProduct == a * b
        t == AndMask(AndMask(unredProduct, rm1) * ctx.baseInv, rm1) * ctx.base
    IN  Shr(unredProduct - t, ctx.shift)

\* montgomeryMul without the branch that adds base to a negative product
montgomeryMulNoAddBack(a, b, ctx) ==
    IF a = ZERO \/ b = ZERO
    THEN ZERO
    ELSE LET product == montgomeryUnfolded(a, b, ctx)
         IN  IF product >= ctx.base THEN product - ctx.base ELSE product

montgomeryMul(a, b, ctx) ==
    IF a = ZERO \/ b = ZERO
    THEN ZERO
    ELSE LET rm1 == ctx.r - ONE
             unredProduct == a * b
             t == AndMask(AndMask(unredProduct, rm1) * ctx.baseInv, rm1) * ctx.base
             product == Shr(unredProduct - t, ctx.shift)
         IN  IF product >= ctx.base THEN product - ctx.base
             ELSE IF product < ZERO THEN product + ctx.base
             ELSE product

montgomerySqr(n, ctx) == montgomeryMul(n, n, ctx)

RECURSIVE PowLoop(_, _, _, _, _, _)
PowLoop(result, x, i, expLen, exp, ctx) ==
    IF i < expLen
    THEN LET result1 == IF AndBit(exp, i) # 0 THEN montgomeryMul(result, x, ctx) ELSE result
         IN  PowLoop(result1, montgomerySqr(x, ctx), i + 1, expLen, exp, ctx)
    ELSE result

\* montgomeryPow with the accumulator started at 1 instead of the Montgomery
\* form of 1
montgomeryPowPlainOne(n, exp, ctx) ==
    PowLoop(ONE, n, ZERO, bitLength(exp), exp, ctx)

montgomeryPow(n, exp, ctx) ==
    PowLoop(montgomeryReduce(ONE, ctx), n, ZERO, bitLength(exp), exp, ctx)

\* ------------------------------------------------------------------------
\* Binary gcd
\* ------------------------------------------------------------------------
RECURSIVE StripShared(_, _, _)
StripShared(a, b, sharedTwoFactors) ==
    IF AndOne(a) = 0 /\ AndOne(b) = 0
    THEN StripShared(Shr(a, 1), Shr(b, 1), sharedTwoFactors + 1)
    ELSE [a |-> a, b |-> b, sharedTwoFactors |-> sharedTwoFactors]

RECURSIVE StripTwos(_)
StripTwos(a) == IF AndOne(a) = 0 THEN StripTwos(Shr(a, 1)) ELSE a

RECURSIVE GcdLoop(_, _)
GcdLoop(a, b) ==
    IF a # b /\ b > ONE
    THEN LET a1 == StripTwos(a)
             b1 == StripTwos(b)
         IN  IF b1 > a1 THEN GcdLoop(b1 - a1, a1)
             ELSE IF a1 = b1 THEN b1
             ELSE GcdLoop(a1 - b1, b1)
    ELSE b

ugcd(a, b) ==
    IF a = b THEN a
    ELSE IF a = ZERO THEN b
    ELSE IF b = ZERO THEN a
    ELSE LET s == StripShared(a, b, ZERO)
         IN  Shl(GcdLoop(s.a, s.b), s.sharedTwoFactors)

\* ------------------------------------------------------------------------
\* Options, bases and results
\* ------------------------------------------------------------------------
\* The bases option: null/undefined, an array of integers, or some other value
NoBases == [kind |-> "null", vals |-> << >>]
BasesArray(seq) == [kind |-> "array", vals |-> seq]
NotAnArray == [kind |-> "other", vals |-> << >>]

\* validateBases with the upper end of the range off by one (b <= nSub)
validateBasesAllowsNSub(bases, nSub) ==
    IF bases.kind = "null" THEN [threw |-> "none", value |-> NoBases]
    ELSE IF bases.kind = "array"
    THEN IF \E k \in 1..Len(bases.vals) :
                ~(bases.vals[k] >= TWO) \/ ~(bases.vals[k] <= nSub)
         THEN [threw |-> "RangeError", value |-> NoBases]
         ELSE [threw |-> "none", value |-> BasesArray(bases.vals)]
    ELSE [threw |-> "TypeError", value |-> NoBases]

\* validateBases without the upper end of the range
validateBasesLowerOnly(bases, nSub) ==
    IF bases.kind = "null" THEN [threw |-> "none", value |-> NoBases]
    ELSE IF bases.kind = "array"
    THEN IF \E k \in 1..Len(bases.vals) : ~(bases.vals[k] >= TWO)
         THEN [threw |-> "RangeError", value |-> NoBases]
         ELSE [threw |-> "none", value |-> BasesArray(bases.vals)]
    ELSE [threw |-> "TypeError", value |-> NoBases]

\* Outcome of validateBases: the validated array, null, or the error thrown
validateBases(bases, nSub) ==
    IF bases.kind = "null" THEN [threw |-> "none", value |-> NoBases]
    ELSE IF bases.kind = "array"
    THEN IF \E k \in 1..Len(bases.vals) :
                ~(bases.vals[k] >= TWO) \/ ~(bases.vals[k] < nSub)
         THEN [threw |-> "RangeError", value |-> NoBases]
         ELSE [threw |-> "none", value |-> BasesArray(bases.vals)]
    ELSE [threw |-> "TypeError", value |-> NoBases]

getAdaptiveNumRounds(inputBits) ==
    IF inputBits > 1000 THEN 2
    ELSE IF inputBits > 500 THEN 3
    ELSE IF inputBits > 250 THEN 4
    ELSE IF inputBits > 150 THEN 5
    ELSE 6

\* First threshold of the deterministic base table
DetThreshold1 == 2047
DetThreshold2 == 1373653
DetThreshold3 == 25326001

\* Upper limit of small_determinism_mode, n < 341550071728321n.  The limit and
\* the table thresholds from 3215031751 on lie above every integer of the
\* model (|n| < 2^31), so the comparison is always true here and the table
\* ends with its fourth row.
BelowDeterministicLimit(n) == TRUE

\* the base table without its rows above the first threshold
DeterministicBasesFirstRowOnly(n) == << 2 >>

DeterministicBases(n) ==
    IF n < DetThreshold1 THEN << 2 >>
    ELSE IF n < DetThreshold2 THEN << 2, 3 >>
    ELSE IF n < DetThreshold3 THEN << 2, 3, 5 >>
    ELSE << 2, 3, 5, 7 >>

PrimalityResult(n, probablePrime, witness, divisor) ==
    [n |-> n, probablePrime |-> probablePrime, witness |-> witness, divisor |-> divisor]

NoResult == PrimalityResult(0, FALSE, Null, Null)

Resolved(result) == [status |-> "resolved", error |-> "none", result |-> result]
Rejected(err) == [status |-> "rejected", error |-> err, result |-> NoResult]
Pending == [status |-> "pending", error |-> "none", result |-> NoResult]

\* ------------------------------------------------------------------------
\* Pieces of primalityTest
\* ------------------------------------------------------------------------
\* Sign of the input; zero counts as positive
SignOf(nArg) == IF nArg < ZERO THEN NEG_ONE ELSE ONE
\* a negative input left as it is
AbsOfKeepsSign(nArg) == nArg
AbsOf(nArg) == IF SignOf(nArg) = NEG_ONE THEN -nArg ELSE nArg

\* The chain of special cases on n = |input|
SpecialCase(n, small_determinism_mode) ==
    IF n < TWO THEN "below2"
    ELSE IF n < FOUR THEN "below4"
    ELSE IF AndOne(n) = 0 THEN "even"
    ELSE IF small_determinism_mode /\ BelowDeterministicLimit(n) THEN "deterministic"
    ELSE "general"

SpecialCaseResult(case, sign, n) ==
    IF case = "below2" THEN PrimalityResult(sign * n, FALSE, Null, Null)
    ELSE IF case = "below4" THEN PrimalityResult(sign * n, TRUE, Null, Null)
    ELSE PrimalityResult(sign * n, FALSE, Null, Some(TWO))

\* bases after the special cases
EffectiveBases(case, n, bases) ==
    IF case = "deterministic" THEN BasesArray(DeterministicBases(n)) ELSE bases

\* n - 1 = d * 2^r and the Montgomery forms of 1 and n - 1
Decomposition(n) ==
    LET nSub == n - ONE
        r == twoMultiplicity(nSub)
        ctx == getReductionContext(n)
    IN  [nBits |-> bitLength(n), nSub |-> nSub, r |-> r, d |-> Shr(nSub, r),
         reductionContext |-> ctx,
         oneReduced |-> montgomeryReduce(ONE, ctx),
         nSubReduced |-> montgomeryReduce(nSub, ctx)]

\* RoundCount that lets a numRounds option cut the base array short
RoundCountKeepsNumRounds(validBases, numRounds, nBits) ==
    IF validBases.kind # "null"
    THEN IF numRounds # Null /\ numRounds[1] >= 1 /\ numRounds[1] < Len(validBases.vals)
         THEN numRounds[1]
         ELSE Len(validBases.vals)
    ELSE IF numRounds = Null \/ numRounds[1] < 1 THEN getAdaptiveNumRounds(nBits)
    ELSE numRounds[1]

\* Number of rounds once the bases are validated
RoundCount(validBases, numRounds, nBits) ==
    IF validBases.kind # "null" THEN Len(validBases.vals)
    ELSE IF numRounds = Null \/ numRounds[1] < 1 THEN getAdaptiveNumRounds(nBits)
    ELSE numRounds[1]

\* Values the random draw of a base can end with: a pattern of nBits bits
\* that lies in [2, n-2]
RandomBases(nBits, nSub) == {b \in 0..(Pow2(nBits) - 1) : b >= TWO /\ b < nSub}

\* RoundHead running the gcd check whatever findDivisor says
RoundHeadAlwaysGcd(n, base, findDivisor, dec) ==
    LET gcd == ugcd(n, base)
        baseReduced == montgomeryReduce(base, dec.reductionContext)
        x == montgomeryPow(baseReduced, dec.d, dec.reductionContext)
    IN  IF gcd # ONE THEN [kind |-> "gcd", gcd |-> gcd, x |-> ZERO]
        ELSE IF x = dec.oneReduced \/ x = dec.nSubReduced
        THEN [kind |-> "pass", gcd |-> gcd, x |-> x]
        ELSE [kind |-> "inner", gcd |-> gcd, x |-> x]

\* RoundHead reporting the base itself as the divisor
RoundHeadDivisorIsBase(n, base, findDivisor, dec) ==
    LET gcd == IF findDivisor THEN ugcd(n, base) ELSE ONE
        baseReduced == montgomeryReduce(base, dec.reductionContext)
        x == montgomeryPow(baseReduced, dec.d, dec.reductionContext)
    IN  IF findDivisor /\ gcd # ONE THEN [kind |-> "gcd", gcd |-> base, x |-> ZERO]
        ELSE IF x = dec.oneReduced \/ x = dec.nSubReduced
        THEN [kind |-> "pass", gcd |-> gcd, x |-> x]
        ELSE [kind |-> "inner", gcd |-> gcd, x |-> x]

\* Head of a round: gcd check, then base^d in Montgomery form
RoundHead(n, base, findDivisor, dec) ==
    LET gcd == IF findDivisor THEN ugcd(n, base) ELSE ONE
        baseReduced == montgomeryReduce(base, dec.reductionContext)
        x == montgomeryPow(baseReduced, dec.d, dec.reductionContext)
    IN  IF findDivisor /\ gcd # ONE THEN [kind |-> "gcd", gcd |-> gcd, x |-> ZERO]
        ELSE IF x = dec.oneReduced \/ x = dec.nSubReduced
        THEN [kind |-> "pass", gcd |-> gcd, x |-> x]
        ELSE [kind |-> "inner", gcd |-> gcd, x |-> x]

\* One iteration of the inner loop on x
InnerStep(x, dec) ==
    LET y == montgomerySqr(x, dec.reductionContext)
    IN  IF y = dec.oneReduced THEN [kind |-> "one", y |-> y]
        ELSE IF y = dec.nSubReduced THEN [kind |-> "minusOne", y |-> y]
        ELSE [kind |-> "next", y |-> y]

\* divisor = ugcd(invMontgomeryReduce(x) - 1, n), null when it is 1; without
\* findDivisor the variable keeps the null it was initialised with
DivisorFrom(x, n, findDivisor, dec) ==
    IF findDivisor
    THEN LET g == ugcd(invMontgomeryReduce(x, dec.reductionContext) - ONE, n)
         IN  IF g = ONE THEN Null ELSE Some(g)
    ELSE Null

\* ------------------------------------------------------------------------
\* primalityTest as an operator: the settled outcome of one call.  draws is
\* the sequence of bases the random source ends up supplying; it is read
\* only when no base array is in use.
\* ------------------------------------------------------------------------
RECURSIVE InnerLoop(_, _, _)
InnerLoop(x, i, dec) ==
    IF i < dec.r
    THEN LET s == InnerStep(x, dec)
         IN  IF s.kind = "next" THEN InnerLoop(s.y, i + 1, dec)
             ELSE [kind |-> s.kind, x |-> x, i |-> i]
    ELSE [kind |-> "exhausted", x |-> x, i |-> i]

\* One pass through the body of the outer loop
RoundOutcome(n, base, findDivisor, dec) ==
    LET h == RoundHead(n, base, findDivisor, dec)
        l == InnerLoop(h.x, ZERO, dec)
        composite(divisor) ==
            [passed |-> FALSE, witness |-> Some(base), divisor |-> divisor]
        passed == [passed |-> TRUE, witness |-> Null, divisor |-> Null]
    IN  IF h.kind = "gcd" THEN composite(Some(h.gcd))
        ELSE IF h.kind = "pass" THEN passed
        ELSE IF l.kind = "one" THEN composite(DivisorFrom(l.x, n, findDivisor, dec))
        ELSE IF l.i = dec.r THEN composite(DivisorFrom(l.x, n, findDivisor, dec))
        ELSE passed

RECURSIVE RoundLoop(_, _, _, _, _, _, _)
RoundLoop(round, numRounds, validBases, draws, n, findDivisor, dec) ==
    IF round < numRounds
    THEN LET base == IF validBases.kind # "null" THEN validBases.vals[round + 1]
                     ELSE draws[round + 1]
             o == RoundOutcome(n, base, findDivisor, dec)
         IN  IF o.passed
             THEN RoundLoop(round + 1, numRounds, validBases, draws, n, findDivisor, dec)
             ELSE o
    ELSE [passed |-> TRUE, witness |-> Null, divisor |-> Null]

primalityTestWith(nArg, options, draws) ==
    LET sign == SignOf(nArg)
        n == AbsOf(nArg)
        case == SpecialCase(n, options.small_determinism_mode)
        bases == EffectiveBases(case, n, options.bases)
        dec == Decomposition(n)
        v == validateBases(bases, dec.nSub)
        numRounds == RoundCount(v.value, options.numRounds, dec.nBits)
        o == RoundLoop(0, numRounds, v.value, draws, n, options.findDivisor, dec)
    IN  IF case \in {"below2", "below4", "even"}
        THEN Resolved(SpecialCaseResult(case, sign, n))
        ELSE IF ReductionContextThrows(n) THEN Rejected("Error")
        ELSE IF v.threw # "none" THEN Rejected(v.threw)
        ELSE Resolved(PrimalityResult(sign * n, o.passed, o.witness, o.divisor))

\* A call whose base sequence does not depend on the random source
primalityTest(nArg, options) == primalityTestWith(nArg, options, << >>)

\* ------------------------------------------------------------------------
\* primalityTest as a state machine: one call, position by position
\* ------------------------------------------------------------------------
VARIABLES
    input,              \* the arguments of the call: n and the options
    pc,                 \* position in the body of the promise executor
    outcome,            \* the promise: pending, resolved or rejected
    n, sign, bases,     \* n after coercion and negation, its sign, the bases in use
    nBits, nSub, r, d, reductionContext, oneReduced, nSubReduced,
    validBases, numRounds, probablePrime, witness, divisor, baseIndex,
    round, base, x, i,
    calls,              \* how often each helper has been called so far
    mul,                \* a direct call of montgomeryMul: operands, context, product
    gcdCall             \* a direct call of ugcd: operands, loop variables, result

vars == << input, pc, outcome, n, sign, bases, nBits, nSub, r, d, reductionContext,
           oneReduced, nSubReduced, validBases, numRounds, probablePrime, witness,
           divisor, baseIndex, round, base, x, i, calls, mul, gcdCall >>

decVars == << nBits, nSub, r, d, reductionContext, oneReduced, nSubReduced >>
loopVars == << validBases, numRounds, probablePrime, witness, divisor, baseIndex >>
roundVars == << round, base, x, i >>
helperVars == << mul, gcdCall >>

\* The decomposition held in the variables
Dec == [nBits |-> nBits, nSub |-> nSub, r |-> r, d |-> d,
        reductionContext |-> reductionContext,
        oneReduced |-> oneReduced, nSubReduced |-> nSubReduced]

NoContext == [base |-> 0, shift |-> 0, r |-> 0, rInv |-> 0, baseInv |-> 0]
NoCalls == [getReductionContext |-> 0, montgomeryReduce |-> 0, montgomeryPow |-> 0,
            montgomerySqr |-> 0, ugcd |-> 0]
\* no direct call of montgomeryMul or ugcd is under way
NoMul == [pc |-> "none", base |-> 0, a |-> 0, b |-> 0, ctx |-> NoContext,
          unfolded |-> 0, product |-> 0]
NoGcd == [pc |-> "none", a0 |-> 0, b0 |-> 0, a |-> 0, b |-> 0,
          sharedTwoFactors |-> 0, iterations |-> 0, steps |-> 0, result |-> 0]

Called(c, name, k) == [c EXCEPT ![name] = @ + k]

\* Arguments of the calls the model makes
\* Values of caller-supplied bases: 1 lies below every valid range; 2 and 3
\* are the first deterministic bases; 4 is n-1 for n = 5 and a square root of
\* 1 modulo 15; 6 is n-1 for n = 7 and shares a factor with 9, 15 and 21; 7 is
\* a strong liar for 25
BasePool == {1, 2, 3, 4, 6, 7}
BaseSeqs == UNION {[1..k -> BasePool] : k \in 0..MaxBases}
FullDeterministicBases == << 2, 3, 5, 7, 11, 13, 17 >>
NumRoundsOptions == {Null} \cup {Some(k) : k \in 0..MaxRounds}
SmallN == (-MaxN)..MaxN
ThresholdN == (DetThreshold1 - DetWindow)..(DetThreshold1 + DetWindow)

Options(numRoundsOpt, basesOpt, findDivisor, small_determinism_mode) ==
    [numRounds |-> numRoundsOpt, bases |-> basesOpt, findDivisor |-> findDivisor,
     small_determinism_mode |-> small_determinism_mode]

\* calls with a caller-supplied bases option
ExplicitCalls ==
    {[n |-> k, options |-> Options(Some(1), b, fd, FALSE)] :
        k \in SmallN,
        b \in {BasesArray(q) : q \in BaseSeqs} \cup {NotAnArray},
        fd \in BOOLEAN}

\* calls with the seven bases of the last row of the deterministic table
FullBasesCalls ==
    {[n |-> k, options |-> Options(Null, BasesArray(FullDeterministicBases), fd, FALSE)] :
        k \in SmallN \cup ThresholdN \cup {-m : m \in ThresholdN},
        fd \in BOOLEAN}

\* calls that leave the choice of bases to the random source
RandomCalls ==
    {[n |-> k, options |-> Options(nr, NoBases, fd, FALSE)] :
        k \in SmallN, nr \in NumRoundsOptions, fd \in BOOLEAN}

\* calls in small_determinism_mode, on both sides of the first table threshold
DeterministicCalls ==
    {[n |-> k, options |-> Options(nr, b, fd, TRUE)] :
        k \in SmallN \cup ThresholdN \cup {-m : m \in ThresholdN},
        nr \in NumRoundsOptions,
        b \in {NoBases, NotAnArray, BasesArray(<< 1 >>), BasesArray(<< 3, 2 >>)},
        fd \in BOOLEAN}

Calls == ExplicitCalls \cup FullBasesCalls \cup RandomCalls \cup DeterministicCalls

Init ==
    /\ input \in Calls
    /\ pc = "enter"
    /\ outcome = Pending
    /\ n = 0 /\ sign = ONE /\ bases = NoBases
    /\ nBits = 0 /\ nSub = 0 /\ r = 0 /\ d = 0
    /\ reductionContext = NoContext /\ oneReduced = 0 /\ nSubReduced = 0
    /\ validBases = NoBases /\ numRounds = 0
    /\ probablePrime = TRUE /\ witness = Null /\ divisor = Null /\ baseIndex = 0
    /\ round = 0 /\ base = 0 /\ x = 0 /\ i = 0
    /\ calls = NoCalls
    /\ mul = NoMul
    /\ gcdCall = NoGcd

\* Coercion, sign handling and the special cases
Enter ==
    /\ pc = "enter"
    /\ LET n1 == AbsOf(input.n)
           sign1 == SignOf(input.n)
           case == SpecialCase(n1, input.options.small_determinism_mode)
       IN  /\ n' = n1
           /\ sign' = sign1
           /\ IF case \in {"below2", "below4", "even"}
              THEN /\ outcome' = Resolved(SpecialCaseResult(case, sign1, n1))
                   /\ pc' = "done"
                   /\ bases' = input.options.bases
              ELSE /\ bases' = EffectiveBases(case, n1, input.options.bases)
                   /\ pc' = "decompose"
                   /\ UNCHANGED outcome
    /\ UNCHANGED << helperVars, input, decVars, loopVars, roundVars, calls >>

\* n - 1 = d * 2^r, the reduction context, the Montgomery forms of 1 and n - 1
Decompose ==
    /\ pc = "decompose"
    /\ IF ReductionContextThrows(n)
       THEN /\ outcome' = Rejected("Error")
            /\ pc' = "done"
            /\ UNCHANGED << decVars, calls >>
       ELSE LET dec == Decomposition(n)
            IN  /\ nBits' = dec.nBits
                /\ nSub' = dec.nSub
                /\ r' = dec.r
                /\ d' = dec.d
                /\ reductionContext' = dec.reductionContext
                /\ oneReduced' = dec.oneReduced
                /\ nSubReduced' = dec.nSubReduced
                /\ calls' = Called(Called(calls, "getReductionContext", 1),
                                   "montgomeryReduce", 2)
                /\ pc' = "selectBases"
                /\ UNCHANGED outcome
    /\ UNCHANGED << helperVars, input, n, sign, bases, loopVars, roundVars >>

\* Validation of the bases, the number of rounds, the loop variables
SelectBases ==
    /\ pc = "selectBases"
    /\ LET v == validateBases(bases, nSub)
       IN  IF v.threw # "none"
           THEN /\ outcome' = Rejected(v.threw)
                /\ pc' = "done"
                /\ UNCHANGED loopVars
           ELSE /\ validBases' = v.value
                /\ numRounds' = RoundCount(v.value, input.options.numRounds, nBits)
                /\ probablePrime' = TRUE
                /\ witness' = Null
                /\ divisor' = Null
                /\ baseIndex' = 0
                /\ pc' = "round"
                /\ UNCHANGED outcome
    /\ UNCHANGED << helperVars, input, n, sign, bases, decVars, roundVars, calls >>

\* Start of a round: the next base, the gcd check, base^d
RoundBegin ==
    /\ pc = "round"
    /\ round < numRounds
    /\ \E b \in IF validBases.kind # "null" THEN {validBases.vals[baseIndex + 1]}
                ELSE RandomBases(nBits, nSub) :
         LET h == RoundHead(n, b, input.options.findDivisor, Dec)
             c1 == IF input.options.findDivisor THEN Called(calls, "ugcd", 1) ELSE calls
             c2 == Called(Called(c1, "montgomeryReduce", 1), "montgomeryPow", 1)
         IN  /\ base' = b
             /\ baseIndex' = IF validBases.kind # "null" THEN baseIndex + 1 ELSE baseIndex
             /\ IF h.kind = "gcd"
                THEN /\ probablePrime' = FALSE
                     /\ witness' = Some(b)
                     /\ divisor' = Some(h.gcd)
                     /\ calls' = c1
                     /\ pc' = "resolve"
                     /\ UNCHANGED << round, x, i >>
                ELSE IF h.kind = "pass"
                THEN /\ x' = h.x
                     /\ round' = round + 1
                     /\ calls' = c2
                     /\ pc' = "round"
                     /\ UNCHANGED << probablePrime, witness, divisor, i >>
                ELSE /\ x' = h.x
                     /\ i' = ZERO
                     /\ calls' = c2
                     /\ pc' = IF ZERO < r THEN "inner" ELSE "afterInner"
                     /\ UNCHANGED << probablePrime, witness, divisor, round >>
    /\ UNCHANGED << helperVars, input, outcome, n, sign, bases, decVars, validBases, numRounds >>

\* InnerIteration leaving only the inner loop when the square is 1, so that
\* the outer loop goes on with the next base
InnerIterationBreaksInnerOnly ==
    /\ pc = "inner"
    /\ i < r
    /\ LET s == InnerStep(x, Dec)
       IN  IF s.kind = "one"
           THEN /\ probablePrime' = FALSE
                /\ witness' = Some(base)
                /\ divisor' = DivisorFrom(x, n, input.options.findDivisor, Dec)
                /\ calls' = IF input.options.findDivisor
                            THEN Called(Called(calls, "montgomerySqr", 1), "ugcd", 1)
                            ELSE Called(calls, "montgomerySqr", 1)
                /\ pc' = "afterInner"
                /\ UNCHANGED << x, i >>
           ELSE IF s.kind = "minusOne"
           THEN /\ pc' = "afterInner"
                /\ calls' = Called(calls, "montgomerySqr", 1)
                /\ UNCHANGED << probablePrime, witness, divisor, x, i >>
           ELSE /\ x' = s.y
                /\ i' = i + 1
                /\ calls' = Called(calls, "montgomerySqr", 1)
                /\ pc' = IF i + 1 < r THEN "inner" ELSE "afterInner"
                /\ UNCHANGED << probablePrime, witness, divisor >>
    /\ UNCHANGED << helperVars, input, outcome, n, sign, bases, decVars, validBases, numRounds,
                    baseIndex, round, base >>

\* One iteration of the inner loop: a squaring and its two tests
InnerIteration ==
    /\ pc = "inner"
    /\ i < r
    /\ LET s == InnerStep(x, Dec)
       IN  IF s.kind = "one"
           THEN /\ probablePrime' = FALSE
                /\ witness' = Some(base)
                /\ divisor' = DivisorFrom(x, n, input.options.findDivisor, Dec)
                /\ calls' = IF input.options.findDivisor
                            THEN Called(Called(calls, "montgomerySqr", 1), "ugcd", 1)
                            ELSE Called(calls, "montgomerySqr", 1)
                /\ pc' = "resolve"
                /\ UNCHANGED << x, i >>
           ELSE IF s.kind = "minusOne"
           THEN /\ pc' = "afterInner"
                /\ calls' = Called(calls, "montgomerySqr", 1)
                /\ UNCHANGED << probablePrime, witness, divisor, x, i >>
           ELSE /\ x' = s.y
                /\ i' = i + 1
                /\ calls' = Called(calls, "montgomerySqr", 1)
                /\ pc' = IF i + 1 < r THEN "inner" ELSE "afterInner"
                /\ UNCHANGED << probablePrime, witness, divisor >>
    /\ UNCHANGED << helperVars, input, outcome, n, sign, bases, decVars, validBases, numRounds,
                    baseIndex, round, base >>

\* After the inner loop: a loop that ran all r iterations makes base a witness
AfterInner ==
    /\ pc = "afterInner"
    /\ IF i = r
       THEN /\ probablePrime' = FALSE
            /\ witness' = Some(base)
            /\ divisor' = DivisorFrom(x, n, input.options.findDivisor, Dec)
            /\ calls' = IF input.options.findDivisor
                        THEN Called(calls, "ugcd", 1) ELSE calls
            /\ pc' = "resolve"
            /\ UNCHANGED round
       ELSE /\ round' = round + 1
            /\ pc' = "round"
            /\ UNCHANGED << probablePrime, witness, divisor, calls >>
    /\ UNCHANGED << helperVars, input, outcome, n, sign, bases, decVars, validBases, numRounds,
                    baseIndex, base, x, i >>

\* The promise resolves once the outer loop is left
Resolve ==
    /\ \/ pc = "resolve"
       \/ pc = "round" /\ ~(round < numRounds)
    /\ outcome' = Resolved(PrimalityResult(sign * n, probablePrime, witness, divisor))
    /\ pc' = "done"
    /\ UNCHANGED << helperVars, input, n, sign, bases, decVars, loopVars, roundVars, calls >>

Next ==
    \/ Enter
    \/ Decompose
    \/ SelectBases
    \/ RoundBegin
    \/ InnerIteration
    \/ AfterInner
    \/ Resolve

Spec == Init /\ [][Next]_vars

\* ------------------------------------------------------------------------
\* Direct calls of montgomeryMul: every odd modulus in 3..MaxModulus and all
\* operands in [0, base), with the context getReductionContext builds
\* ------------------------------------------------------------------------
\* No call of primalityTest is under way
NoTest ==
    /\ input = [n |-> 0, options |-> Options(Null, NoBases, TRUE, FALSE)]
    /\ pc = "none"
    /\ outcome = Pending
    /\ n = 0 /\ sign = ONE /\ bases = NoBases
    /\ nBits = 0 /\ nSub = 0 /\ r = 0 /\ d = 0
    /\ reductionContext = NoContext /\ oneReduced = 0 /\ nSubReduced = 0
    /\ validBases = NoBases /\ numRounds = 0
    /\ probablePrime = TRUE /\ witness = Null /\ divisor = Null /\ baseIndex = 0
    /\ round = 0 /\ base = 0 /\ x = 0 /\ i = 0
    /\ calls = NoCalls

testVars == << input, pc, outcome, n, sign, bases, decVars, loopVars, roundVars, calls >>

OddModuli == {m \in 3..MaxModulus : m % 2 = 1}

MulInit ==
    /\ NoTest
    /\ gcdCall = NoGcd
    /\ \E m \in OddModuli :
         \E a \in 0..(m - 1), b \in 0..(m - 1) :
            mul = [NoMul EXCEPT !.pc = "context", !.base = m, !.a = a, !.b = b]

\* ctx = getReductionContext(base)
MulContext ==
    /\ mul.pc = "context"
    /\ mul' = [mul EXCEPT !.pc = "multiply", !.ctx = getReductionContext(mul.base)]
    /\ UNCHANGED << testVars, gcdCall >>

\* product = montgomeryMul(a, b, ctx)
MulMultiply ==
    /\ mul.pc = "multiply"
    /\ mul' = [mul EXCEPT !.pc = "done",
                          !.unfolded = IF mul.a = ZERO \/ mul.b = ZERO THEN ZERO
                                       ELSE montgomeryUnfolded(mul.a, mul.b, mul.ctx),
                          !.product = montgomeryMul(mul.a, mul.b, mul.ctx)]
    /\ UNCHANGED << testVars, gcdCall >>

MulNext ==
    \/ MulContext
    \/ MulMultiply

SpecMul == MulInit /\ [][MulNext]_vars

\* ------------------------------------------------------------------------
\* Direct calls of ugcd, one step per test of a loop condition, for all
\* operands in 0..MaxOperand
\* ------------------------------------------------------------------------
GcdInit ==
    /\ NoTest
    /\ mul = NoMul
    /\ \E a \in 0..MaxOperand, b \in 0..MaxOperand :
         gcdCall = [NoGcd EXCEPT !.pc = "enter", !.a0 = a, !.b0 = b, !.a = a, !.b = b]

\* The next position of the call, counted as one more step
GcdGoto(position) == [gcdCall EXCEPT !.pc = position, !.steps = @ + 1]

\* The three early returns
GcdEnter ==
    /\ gcdCall.pc = "enter"
    /\ gcdCall.steps < MaxSteps
    /\ gcdCall' =
         IF gcdCall.a = gcdCall.b
         THEN [GcdGoto("done") EXCEPT !.result = gcdCall.a]
         ELSE IF gcdCall.a = ZERO
         THEN [GcdGoto("done") EXCEPT !.result = gcdCall.b]
         ELSE IF gcdCall.b = ZERO
         THEN [GcdGoto("done") EXCEPT !.result = gcdCall.a]
         ELSE [GcdGoto("shared") EXCEPT !.sharedTwoFactors = ZERO]
    /\ UNCHANGED << testVars, mul >>

\* while (!((a & ONE) | (b & ONE))): one shared factor of two is removed
GcdShared ==
    /\ gcdCall.pc = "shared"
    /\ gcdCall.steps < MaxSteps
    /\ gcdCall' =
         IF AndOne(gcdCall.a) = 0 /\ AndOne(gcdCall.b) = 0
         THEN [GcdGoto("shared") EXCEPT !.sharedTwoFactors = @ + 1,
                                        !.a = Shr(gcdCall.a, 1),
                                        !.b = Shr(gcdCall.b, 1)]
         ELSE GcdGoto("loop")
    /\ UNCHANGED << testVars, mul >>

\* while (a !== b && b > ONE)
GcdLoopTest ==
    /\ gcdCall.pc = "loop"
    /\ gcdCall.steps < MaxSteps
    /\ gcdCall' =
         IF gcdCall.a # gcdCall.b /\ gcdCall.b > ONE
         THEN [GcdGoto("stripA") EXCEPT !.iterations = @ + 1]
         ELSE GcdGoto("return")
    /\ UNCHANGED << testVars, mul >>

\* while (!(a & ONE)) a >>= ONE
GcdStripA ==
    /\ gcdCall.pc = "stripA"
    /\ gcdCall.steps < MaxSteps
    /\ gcdCall' =
         IF AndOne(gcdCall.a) = 0
         THEN [GcdGoto("stripA") EXCEPT !.a = Shr(gcdCall.a, 1)]
         ELSE GcdGoto("stripB")
    /\ UNCHANGED << testVars, mul >>

\* while (!(b & ONE)) b >>= ONE
GcdStripB ==
    /\ gcdCall.pc = "stripB"
    /\ gcdCall.steps < MaxSteps
    /\ gcdCall' =
         IF AndOne(gcdCall.b) = 0
         THEN [GcdGoto("stripB") EXCEPT !.b = Shr(gcdCall.b, 1)]
         ELSE GcdGoto("order")
    /\ UNCHANGED << testVars, mul >>

\* The swap that keeps a > b, the break on a === b, and a -= b
GcdOrder ==
    /\ gcdCall.pc = "order"
    /\ gcdCall.steps < MaxSteps
    /\ gcdCall' =
         IF gcdCall.b > gcdCall.a
         THEN [GcdGoto("loop") EXCEPT !.a = gcdCall.b - gcdCall.a, !.b = gcdCall.a]
         ELSE IF gcdCall.a = gcdCall.b
         THEN GcdGoto("return")
         ELSE [GcdGoto("loop") EXCEPT !.a = gcdCall.a - gcdCall.b]
    /\ UNCHANGED << testVars, mul >>

\* GcdReturn without re-applying the shared factors of two
GcdReturnDropsTwos ==
    /\ gcdCall.pc = "return"
    /\ gcdCall.steps < MaxSteps
    /\ gcdCall' = [GcdGoto("done") EXCEPT !.result = gcdCall.b]
    /\ UNCHANGED << testVars, mul >>

\* return b << sharedTwoFactors
GcdReturn ==
    /\ gcdCall.pc = "return"
    /\ gcdCall.steps < MaxSteps
    /\ gcdCall' = [GcdGoto("done") EXCEPT
                      !.result = Shl(gcdCall.b, gcdCall.sharedTwoFactors)]
    /\ UNCHANGED << testVars, mul >>

GcdNext ==
    \/ GcdEnter
    \/ GcdShared
    \/ GcdLoopTest
    \/ GcdStripA
    \/ GcdStripB
    \/ GcdOrder
    \/ GcdReturn

\* A call runs to its return: no step of it waits on anything
SpecGcd == GcdInit /\ [][GcdNext]_vars /\ WF_vars(GcdNext)

\* ------------------------------------------------------------------------
\* Reference definitions for the properties
\* ------------------------------------------------------------------------
Abs(k) == IF k < 0 THEN -k ELSE k
IsPrime(k) == k >= 2 /\ \A q \in 2..(k - 1) : q * q > k \/ k % q # 0
IsOdd(k) == k % 2 = 1

Done == pc = "done"
Settled == Done /\ outcome.status = "resolved"
InputN == Abs(input.n)

\* The operator form and the state machine settle alike whenever the base
\* sequence does not come from the random source
OperatorAgreesWithRun ==
    (Done /\ (input.options.small_determinism_mode \/ input.options.bases.kind # "null")) =>
        outcome = primalityTest(input.n, input.options)

\* ------------------------------------------------------------------------
\* Properties
\* ------------------------------------------------------------------------
\* C1: in small_determinism_mode every call resolves, and probablePrime is
\* true exactly when |n| is prime, whatever findDivisor, numRounds and bases
C1_DeterministicModeDecidesPrimality ==
    (Done /\ input.options.small_determinism_mode) =>
        /\ outcome.status = "resolved"
        /\ outcome.result.probablePrime = IsPrime(InputN)

\* C1 case: the first strong pseudoprime to base 2 is caught by the second
\* base of its table row
C1_Witness ==
    /\ Done
    /\ input.options.small_determinism_mode
    /\ InputN = DetThreshold1
    /\ outcome.result.probablePrime = FALSE
    /\ outcome.result.witness = Some(3)

\* Bases in use lie in [2, n-2]: the table's, random ones, or valid caller bases
BasesInRange ==
    \/ input.options.small_determinism_mode
    \/ input.options.bases.kind = "null"
    \/ /\ input.options.bases.kind = "array"
       /\ \A k \in 1..Len(input.options.bases.vals) :
            input.options.bases.vals[k] \in 2..(InputN - 2)

\* C2: a prime n >= 5 is reported probable prime, without witness or divisor,
\* for every sequence of bases in [2, n-2]
C2_PrimeNeverReportedComposite ==
    (Done /\ IsPrime(InputN) /\ InputN >= 5 /\ BasesInRange) =>
        outcome = Resolved(PrimalityResult(input.n, TRUE, Null, Null))

\* C2 case: a prime tested in six rounds of random bases, some of which went
\* through the squaring loop
C2_Witness ==
    /\ Done
    /\ IsPrime(InputN) /\ InputN >= 5
    /\ validBases.kind = "null"
    /\ round = 6
    /\ calls.montgomerySqr >= 2
    /\ outcome.result.probablePrime

\* C3: with findDivisor, a divisor in the result divides |n| and lies strictly
\* between 1 and |n|
C3_DivisorIsProper ==
    (Settled /\ input.options.findDivisor /\ outcome.result.divisor # Null) =>
        LET g == outcome.result.divisor[1]
        IN  /\ 1 < g
            /\ g < InputN
            /\ InputN % g = 0

\* C3 case: the divisor derived from a square root of 1 found in the inner loop
C3_Witness ==
    /\ Settled
    /\ input.options.findDivisor
    /\ IsOdd(InputN)
    /\ outcome.result.divisor # Null
    /\ calls.montgomerySqr >= 1
    /\ i < r

\* C3 case: the divisor from the gcd of n and the base
DivisorFromGcdCheck ==
    /\ Settled /\ input.options.findDivisor /\ IsOdd(InputN)
    /\ outcome.result.divisor # Null
    /\ calls.montgomeryPow = 0

\* C3 case: the divisor derived after the inner loop ran all r iterations
DivisorFromExhaustedLoop ==
    /\ Settled /\ input.options.findDivisor /\ IsOdd(InputN)
    /\ outcome.result.divisor # Null
    /\ calls.montgomerySqr >= 1
    /\ i = r

\* The bases option is present and malformed: not an array, or an array with
\* a value outside [2, |n|-2]
MalformedBases ==
    \/ input.options.bases.kind = "other"
    \/ /\ input.options.bases.kind = "array"
       /\ \E k \in 1..Len(input.options.bases.vals) :
            input.options.bases.vals[k] \notin 2..(InputN - 2)

\* C4: a call whose bases option is present and malformed never resolves; it
\* fails with an error, for every n and every other option
C4_MalformedBasesNeverResolve ==
    (Done /\ MalformedBases) => outcome.status = "rejected"

\* An array of bases with a value outside [2, |n|-2], for odd |n| >= 5
OddWithOutOfRangeBase ==
    /\ IsOdd(InputN) /\ InputN >= 5
    /\ input.options.bases.kind = "array"
    /\ \E k \in 1..Len(input.options.bases.vals) :
         input.options.bases.vals[k] \notin 2..(InputN - 2)

\* C5 as stated: for odd n >= 5 and a base outside [2, n-2] the call fails
\* with a range error before any reduction context is built and before any
\* Montgomery reduce, multiply or power step
C5_RangeErrorBeforeAnyMontgomeryWork ==
    (Done /\ OddWithOutOfRangeBase) =>
        /\ outcome = Rejected("RangeError")
        /\ calls = NoCalls

\* C5 amended: when the caller's bases are in use (small_determinism_mode
\* off), the call fails with a range error before any round begins: the
\* reduction context has been built and 1 and n-1 have been reduced, and no
\* gcd, power or squaring step is ever executed
C5_RangeErrorBeforeAnyRound ==
    (OddWithOutOfRangeBase /\ ~input.options.small_determinism_mode) =>
        /\ pc \in {"enter", "decompose", "selectBases", "done"}
        /\ calls.ugcd = 0 /\ calls.montgomeryPow = 0 /\ calls.montgomerySqr = 0
        /\ Done =>
            /\ outcome = Rejected("RangeError")
            /\ calls = [NoCalls EXCEPT !.getReductionContext = 1,
                                       !.montgomeryReduce = 2]

\* C5 case: the base n-1 rejected after the context was set up
C5_Witness ==
    /\ Done
    /\ ~input.options.small_determinism_mode
    /\ IsOdd(InputN) /\ InputN >= 5
    /\ input.options.bases.kind = "array"
    /\ \E k \in 1..Len(input.options.bases.vals) :
         input.options.bases.vals[k] = InputN - 1
    /\ outcome = Rejected("RangeError")
    /\ calls.getReductionContext = 1

\* The call passes the seven bases of the table's last row, table mode off
FullBasesCall ==
    /\ ~input.options.small_determinism_mode
    /\ input.options.bases = BasesArray(FullDeterministicBases)

\* The same call with small_determinism_mode on
DeterministicOutcome ==
    primalityTest(input.n, [input.options EXCEPT !.small_determinism_mode = TRUE])

\* C6 as stated: with bases = [2,3,5,7,11,13,17] the call resolves, for every
\* n, with the verdict of small_determinism_mode
C6_FullBasesMatchDeterministicMode ==
    (Done /\ FullBasesCall) =>
        /\ outcome.status = "resolved"
        /\ outcome.result.probablePrime = DeterministicOutcome.result.probablePrime

\* C6 amended: the call fails with a range error for odd |n| in 5..17, where
\* 17 (or a smaller base) lies outside [2, |n|-2]; for every other n it
\* resolves with the verdict of small_determinism_mode
C6_FullBasesMatchUnlessOutOfRange ==
    (Done /\ FullBasesCall) =>
        IF IsOdd(InputN) /\ InputN >= 5 /\ InputN <= 17
        THEN outcome = Rejected("RangeError")
        ELSE /\ outcome.status = "resolved"
             /\ DeterministicOutcome.status = "resolved"
             /\ outcome.result.probablePrime = DeterministicOutcome.result.probablePrime

\* C6 case: a prime above 17 passes all seven rounds
C6_Witness ==
    /\ Done /\ FullBasesCall
    /\ IsPrime(InputN) /\ InputN > 17
    /\ round = 7
    /\ outcome.result.probablePrime

BaseSequenceFixed ==
    input.options.small_determinism_mode \/ input.options.bases.kind # "null"

\* C8: the call on -n settles like the call on n (same verdict, witness and
\* divisor, or the same error), and each result's n is the signed input
C8_NegationSymmetry ==
    (Done /\ BaseSequenceFixed) =>
        LET mirror == primalityTest(-input.n, input.options)
        IN  /\ mirror.status = outcome.status
            /\ mirror.error = outcome.error
            /\ outcome.status = "resolved" =>
                 /\ mirror.result.probablePrime = outcome.result.probablePrime
                 /\ mirror.result.witness = outcome.result.witness
                 /\ mirror.result.divisor = outcome.result.divisor
                 /\ outcome.result.n = input.n
                 /\ mirror.result.n = -input.n

\* C8 case: a negative odd composite, tested with caller bases, with witness
\* and divisor
C8_Witness ==
    /\ Settled
    /\ input.n < -4
    /\ input.options.bases.kind = "array"
    /\ ~input.options.small_determinism_mode
    /\ outcome.result.n = input.n
    /\ outcome.result.witness # Null
    /\ outcome.result.divisor # Null
    /\ calls.montgomerySqr >= 1

RECURSIVE RefGcd(_, _)
RefGcd(a, b) == IF b = 0 THEN a ELSE RefGcd(b, a % b)

RECURSIVE ModExp(_, _, _)
ModExp(b, e, m) ==
    IF e = 0 THEN 1 % m
    ELSE LET h == ModExp(b, e \div 2, m)
         IN  IF e % 2 = 0 THEN (h * h) % m ELSE (((h * h) % m) * (b % m)) % m

RECURSIVE Valuation(_)
Valuation(k) == IF k % 2 = 0 THEN 1 + Valuation(k \div 2) ELSE 0

\* m is a strong probable prime to base b: b^d is 1 or -1, or some
\* b^(d*2^j), 0 <= j < r, is -1 modulo m, where m - 1 = d * 2^r
StrongProbablePrime(m, b) ==
    LET rr == Valuation(m - 1)
        dd == (m - 1) \div (2 ^ rr)
    IN  \/ ModExp(b, dd, m) \in {1, m - 1}
        \/ \E j \in 0..(rr - 1) : ModExp(b, dd * (2 ^ j), m) = m - 1

\* base b fails its round
FailsRound(m, b, findDivisor) ==
    \/ findDivisor /\ RefGcd(m, b) # 1
    \/ ~StrongProbablePrime(m, b)

\* Index of the first base of seq that fails its round, 0 when none does
FirstFailing(seq, m, findDivisor) ==
    IF \E k \in 1..Len(seq) : FailsRound(m, seq[k], findDivisor)
    THEN CHOOSE k \in 1..Len(seq) :
            /\ FailsRound(m, seq[k], findDivisor)
            /\ \A j \in 1..(k - 1) : ~FailsRound(m, seq[j], findDivisor)
    ELSE 0

\* C9: with a validated base array, a composite verdict names as witness the
\* first base that shares a factor with n (findDivisor only) or fails the
\* strong-probable-prime condition; no base after it is ever taken, and no
\* gcd, power or squaring step is executed for one
C9_FirstFailingBaseIsWitness ==
    (validBases.kind = "array") =>
        LET ff == FirstFailing(validBases.vals, n, input.options.findDivisor)
        IN  /\ ff > 0 =>
                 /\ baseIndex <= ff
                 /\ round < ff
                 /\ calls.montgomeryPow <= ff
                 /\ calls.ugcd <= ff + 1
            /\ (Done /\ ~outcome.result.probablePrime) =>
                 /\ ff > 0
                 /\ outcome.result.witness = Some(validBases.vals[ff])
                 /\ baseIndex = ff
                 /\ base = validBases.vals[ff]

\* C9 case: the first base passed through the squaring loop, the second is
\* the witness, a third was never taken
C9_Witness ==
    /\ Done
    /\ validBases.kind = "array"
    /\ Len(validBases.vals) > 2
    /\ baseIndex = 2
    /\ outcome.result.witness = Some(validBases.vals[2])
    /\ calls.montgomerySqr >= 1

\* The rearrangements of a sequence
Rearrangements(seq) ==
    {[k \in 1..Len(seq) |-> seq[f[k]]] : f \in Permutations(1..Len(seq))}

\* C10: for odd n >= 5 and caller bases valid for n, probablePrime is the
\* same for every rearrangement of the bases, with either findDivisor
C10_VerdictIndependentOfOrder ==
    (Settled /\ ~input.options.small_determinism_mode
        /\ input.options.bases.kind = "array"
        /\ Len(input.options.bases.vals) <= MaxBases
        /\ IsOdd(InputN) /\ InputN >= 5) =>
        \A q \in Rearrangements(input.options.bases.vals) :
            LET other == primalityTest(input.n, [input.options EXCEPT !.bases = BasesArray(q)])
            IN  /\ other.status = "resolved"
                /\ other.result.probablePrime = outcome.result.probablePrime

\* C10 case: two bases of which the reversed order reports another witness
\* and another divisor
C10_Witness ==
    /\ Settled
    /\ ~input.options.small_determinism_mode
    /\ input.options.bases.kind = "array"
    /\ Len(input.options.bases.vals) = 2
    /\ ~outcome.result.probablePrime
    /\ LET q == << input.options.bases.vals[2], input.options.bases.vals[1] >>
           other == primalityTest(input.n, [input.options EXCEPT !.bases = BasesArray(q)])
       IN  /\ other.result.witness # outcome.result.witness
           /\ other.result.divisor # outcome.result.divisor

\* C10 case: a strong liar first and a witness second, so that the reversed
\* order ends after one round
LiarThenWitness ==
    /\ Settled
    /\ ~input.options.small_determinism_mode
    /\ input.options.bases.kind = "array"
    /\ Len(input.options.bases.vals) = 2
    /\ baseIndex = 2
    /\ ~outcome.result.probablePrime

\* C11: for an odd modulus base >= 3 the context has r = 2^bitLength(base)
\* > base, r * rInv = 1 (mod base) and base * baseInv = 1 (mod r); for a, b
\* in [0, base) montgomeryMul returns (a * b * rInv) mod base, a value in
\* [0, base) congruent to a * b / r, reached from the unfolded product with
\* at most one addition or subtraction of base
C11_MontgomeryProduct ==
    /\ mul.pc \in {"multiply", "done"} =>
         /\ mul.ctx.base = mul.base
         /\ mul.ctx.r = 2 ^ bitLength(mul.base)
         /\ mul.ctx.r > mul.base
         /\ mul.ctx.r \div 2 <= mul.base
         /\ (mul.ctx.r * mul.ctx.rInv) % mul.base = 1
         /\ (mul.base * mul.ctx.baseInv) % mul.ctx.r = 1
    /\ mul.pc = "done" =>
         /\ mul.product \in 0..(mul.base - 1)
         /\ mul.product = (mul.a * mul.b * mul.ctx.rInv) % mul.base
         /\ (mul.product * mul.ctx.r) % mul.base = (mul.a * mul.b) % mul.base
         /\ mul.product \in {mul.unfolded, mul.unfolded - mul.base,
                              mul.unfolded + mul.base}

\* C11 case: a product that came out negative and was folded back by one
\* addition of base
C11_Witness ==
    /\ mul.pc = "done"
    /\ mul.a # mul.b
    /\ mul.unfolded < 0
    /\ mul.product = mul.unfolded + mul.base

\* C11 case: operands that need no folding
MulWithoutFolding ==
    /\ mul.pc = "done"
    /\ mul.a > 1 /\ mul.b > 1
    /\ mul.product = mul.unfolded

\* The number of steps a call ugcd(a, b) may take
GcdStepBound(a, b) == 4 * (bitLength(a) + bitLength(b)) + 4

\* What holds at every step of a call of ugcd: the loops work on positive
\* operands, the step count stays within its bound, and the returned value
\* is the greatest common divisor
GcdStepwise ==
    /\ gcdCall.steps <= GcdStepBound(gcdCall.a0, gcdCall.b0)
    /\ gcdCall.steps < MaxSteps
    /\ gcdCall.pc \in {"shared", "loop", "stripA", "stripB", "order", "return"} =>
         /\ gcdCall.a > 0 /\ gcdCall.b > 0
         /\ Shl(RefGcd(gcdCall.a, gcdCall.b), gcdCall.sharedTwoFactors)
              = RefGcd(gcdCall.a0, gcdCall.b0)
    /\ gcdCall.pc = "done" =>
         /\ gcdCall.result = RefGcd(gcdCall.a0, gcdCall.b0)
         /\ gcdCall.result = ugcd(gcdCall.a0, gcdCall.b0)
         /\ gcdCall.b0 = 0 => gcdCall.result = gcdCall.a0
         /\ gcdCall.a0 = 0 => gcdCall.result = gcdCall.b0
         /\ gcdCall.a0 = gcdCall.b0 => gcdCall.result = gcdCall.a0

\* C12: for all non-negative a and b, equal operands, zero operands and
\* operands with different numbers of trailing zero bits included,
\* ugcd(a, b) terminates and returns the greatest common divisor of a and b,
\* with ugcd(a, 0) = a and ugcd(0, b) = b
C12_GcdTerminatesWithGcd == [](GcdStepwise) /\ <>(gcdCall.pc = "done")

\* C12 case: operands with different numbers of trailing zero bits that
\* share a factor of two and take more than one pass of the loop
C12_Witness ==
    /\ gcdCall.pc = "done"
    /\ gcdCall.a0 > 0 /\ gcdCall.b0 > 0
    /\ Valuation(gcdCall.a0) # Valuation(gcdCall.b0)
    /\ gcdCall.sharedTwoFactors > 0
    /\ gcdCall.iterations > 1
    /\ gcdCall.result > 2
    /\ gcdCall.result = RefGcd(gcdCall.a0, gcdCall.b0)

\* C12 case: a zero operand returns the other operand
GcdOfZero ==
    /\ gcdCall.pc = "done"
    /\ gcdCall.a0 = 0 /\ gcdCall.b0 > 0
    /\ gcdCall.result = gcdCall.b0

\* C12 case: the loop is left through the break on equal operands
GcdLeftByBreak ==
    /\ gcdCall.pc = "return"
    /\ gcdCall.iterations > 1
    /\ gcdCall.a = gcdCall.b
    /\ gcdCall.b > 1

====
